---- MODULE Spec2Model ----
(***************************************************************************)
(* Model of the audiobook plugin's text segmentation code:                 *)
(*   scripts/md_to_audiobook.py   split_text_smart (paragraph chunker)     *)
(*   scripts/extract_chapters.py  find_chapters, extract_chapters,         *)
(*                                parse_chapter_arg, roman_to_int          *)
(*   scripts/md_to_audiobook.py, scripts/md_to_audiobook_qwen.py           *)
(*                                the synthesis loop of main               *)
(* A text is a sequence of one-character strings.  Offsets in the model    *)
(* are Python offsets (0-based); text[k] of Python is text[k + 1] here.    *)
(***************************************************************************)
EXTENDS Integers, Sequences, FiniteSets, TLC

VARIABLES pc, text, maxChars, chunks, outcome,
          candidates, valid_chapters, chapters, requested, extracted,
          stderr, arg, parsed, shape, chapter_bounds,
          rechunk_of, rechunked, numeral, roman_total,
          driver, idx, temp_files, merge_calls, synthesized

\* a second run of the chunker, on one of the chunks of the first
rechunkVars == <<rechunk_of, rechunked>>

\* a call of roman_to_int
romanVars == <<numeral, roman_total>>

\* the synthesis loop of a driver's main
driverVars == <<driver, idx, temp_files, merge_calls, synthesized>>

vars == <<pc, text, maxChars, chunks, outcome, candidates, valid_chapters,
          chapters, requested, extracted, stderr, arg, parsed, shape,
          chapter_bounds, rechunkVars, romanVars, driverVars>>

(***************************************************************************)
(* Characters and the str methods the scripts use                          *)
(***************************************************************************)
\* the whitespace characters of the model's alphabet (str.strip, regex \s)
Whitespace == {" ", "\n", "\t"}

IsSpace(c) == c \in Whitespace

SetMin(S) == CHOOSE x \in S : \A y \in S : x <= y

SetMax(S) == CHOOSE x \in S : \A y \in S : x >= y

\* first index j >= i (1-based) with s[j] outside the class, Len(s)+1 if none
RECURSIVE RunEnd(_, _, _)
RunEnd(s, i, class) ==
  IF i > Len(s) \/ s[i] \notin class THEN i ELSE RunEnd(s, i + 1, class)

\* last index j <= i (1-based) with s[j] outside the class, 0 if none
RECURSIVE RunBegin(_, _, _)
RunBegin(s, i, class) ==
  IF i < 1 \/ s[i] \notin class THEN i ELSE RunBegin(s, i - 1, class)

\* str.strip(): drop leading and trailing whitespace
Strip(s) ==
  LET a == RunEnd(s, 1, Whitespace)
  IN  IF a > Len(s) THEN <<>> ELSE SubSeq(s, a, RunBegin(s, Len(s), Whitespace))

\* Python slice s[a:b] with 0 <= a, b <= len(s): empty when b <= a
Slice(s, a, b) == IF b <= a THEN <<>> ELSE SubSeq(s, a + 1, b)

RECURSIVE Concat(_)
Concat(ss) == IF ss = <<>> THEN <<>> ELSE Head(ss) \o Concat(Tail(ss))

(***************************************************************************)
(* md_to_audiobook.py: split_text_smart                                    *)
(***************************************************************************)
\* re.split(r"\n\n+", text): cut at every maximal run of two or more newlines
RECURSIVE SplitParagraphsFrom(_, _, _)
SplitParagraphsFrom(s, i, st) ==
  IF i > Len(s) THEN <<SubSeq(s, st, Len(s))>>
  ELSE IF s[i] = "\n" /\ i + 1 <= Len(s) /\ s[i + 1] = "\n"
       THEN LET j == RunEnd(s, i, {"\n"})
            IN  <<SubSeq(s, st, i - 1)>> \o SplitParagraphsFrom(s, j, j)
       ELSE SplitParagraphsFrom(s, i + 1, st)

SplitParagraphs(s) == SplitParagraphsFrom(s, 1, 1)

SentenceEnd == {".", "!", "?"}

\* re.split(r"([.!?]+\s+)", para): the pieces alternate text, separator, text, ...
RECURSIVE SplitSentencesFrom(_, _, _)
SplitSentencesFrom(s, i, st) ==
  IF i > Len(s) THEN <<SubSeq(s, st, Len(s))>>
  ELSE IF s[i] \in SentenceEnd
       THEN LET j == RunEnd(s, i, SentenceEnd)
                k == RunEnd(s, j, Whitespace)
            IN  IF k > j
                THEN <<SubSeq(s, st, i - 1), SubSeq(s, i, k - 1)>>
                       \o SplitSentencesFrom(s, k, k)
                ELSE SplitSentencesFrom(s, j, st)
       ELSE SplitSentencesFrom(s, i + 1, st)

SplitSentences(s) == SplitSentencesFrom(s, 1, 1)

\* a plausible slip: the captured separator is not re-attached
SentenceUnitNoSeparator(sentences, i) == sentences[i + 1]

\* lines 81-83: sentence = sentences[i] (+ sentences[i + 1]); i is the Python index
SentenceUnit(sentences, i) ==
  IF i + 1 < Len(sentences) THEN sentences[i + 1] \o sentences[i + 2]
  ELSE sentences[i + 1]

\* a plausible slip: the chunk is appended without .strip()
FlushedUnstripped(st) ==
  IF st.current_chunk # <<>> THEN Append(st.chunks, st.current_chunk)
  ELSE st.chunks

\* lines 74-77, 87-88, 96-97: "if current_chunk: chunks.append(current_chunk.strip())"
Flushed(st) ==
  IF st.current_chunk # <<>> THEN Append(st.chunks, Strip(st.current_chunk))
  ELSE st.chunks

\* a plausible slip: line 86 tests the sentence alone against max_chars
SentenceStepTestsUnitOnly(st, sentence, max_chars) ==
  LET sent_chars == Len(sentence)
  IN  IF sent_chars > max_chars
      THEN [chunks |-> Flushed(st), current_chunk |-> sentence,
            current_chars |-> sent_chars]
      ELSE [chunks |-> st.chunks, current_chunk |-> st.current_chunk \o sentence,
            current_chars |-> st.current_chars + sent_chars]

\* lines 85-93: one sentence unit against the running chunk
SentenceStep(st, sentence, max_chars) ==
  LET sent_chars == Len(sentence)
  IN  IF st.current_chars + sent_chars > max_chars
      THEN [chunks |-> Flushed(st), current_chunk |-> sentence,
            current_chars |-> sent_chars]
      ELSE [chunks |-> st.chunks, current_chunk |-> st.current_chunk \o sentence,
            current_chars |-> st.current_chars + sent_chars]

\* line 80: for i in range(0, len(sentences), 2)
RECURSIVE SentenceLoop(_, _, _, _)
SentenceLoop(st, sentences, i, max_chars) ==
  IF i >= Len(sentences) THEN st
  ELSE SentenceLoop(SentenceStep(st, SentenceUnit(sentences, i), max_chars),
                    sentences, i + 2, max_chars)

\* lines 67-106: the body of "for para in paragraphs"
ParagraphStep(st, raw, max_chars) ==
  LET para == Strip(raw)
      para_chars == Len(para)
  IN  IF para = <<>> THEN st
      ELSE IF para_chars > max_chars
      THEN SentenceLoop(IF st.current_chunk # <<>>
                        THEN [chunks |-> Flushed(st), current_chunk |-> <<>>,
                              current_chars |-> 0]
                        ELSE st,
                        SplitSentences(para), 0, max_chars)
      ELSE IF st.current_chars + para_chars > max_chars
      THEN [chunks |-> Flushed(st), current_chunk |-> para,
            current_chars |-> para_chars]
      ELSE IF st.current_chunk # <<>>
      THEN [chunks |-> st.chunks,
            current_chunk |-> st.current_chunk \o <<"\n", "\n">> \o para,
            current_chars |-> st.current_chars + 2 + para_chars]
      ELSE [chunks |-> st.chunks, current_chunk |-> para,
            current_chars |-> para_chars]

RECURSIVE ParagraphLoop(_, _, _)
ParagraphLoop(st, paragraphs, max_chars) ==
  IF paragraphs = <<>> THEN st
  ELSE ParagraphLoop(ParagraphStep(st, Head(paragraphs), max_chars),
                     Tail(paragraphs), max_chars)

\* lines 59-111
split_text_smart(t, max_chars) ==
  Flushed(ParagraphLoop([chunks |-> <<>>, current_chunk |-> <<>>,
                         current_chars |-> 0],
                        SplitParagraphs(t), max_chars))

(***************************************************************************)
(* extract_chapters.py: characters of the chapter patterns.  A character   *)
(* is a string; the Cyrillic letters are named by their code points:       *)
(* U+0413 U+043B U+0430 U+0432 U+0430 is "Glava" in Cyrillic small letters *)
(* after the capital, U+0413 U+041B U+0410 U+0412 U+0410 the capitals.     *)
(***************************************************************************)
UpperLetters ==
  <<"A", "B", "C", "D", "E", "F", "G", "H", "I", "J", "K", "L", "M", "N", "O",
    "P", "Q", "R", "S", "T", "U", "V", "W", "X", "Y", "Z",
    "U+0413", "U+041B", "U+0410", "U+0412">>

LowerLetters ==
  <<"a", "b", "c", "d", "e", "f", "g", "h", "i", "j", "k", "l", "m", "n", "o",
    "p", "q", "r", "s", "t", "u", "v", "w", "x", "y", "z",
    "U+0433", "U+043B", "U+0430", "U+0432">>

\* case folding of re.IGNORECASE on the letters of the model
Lower(c) ==
  IF \E i \in 1..Len(UpperLetters) : UpperLetters[i] = c
  THEN LowerLetters[CHOOSE i \in 1..Len(UpperLetters) : UpperLetters[i] = c]
  ELSE c

\* str.upper()
Upper(c) ==
  IF \E i \in 1..Len(LowerLetters) : LowerLetters[i] = c
  THEN UpperLetters[CHOOSE i \in 1..Len(LowerLetters) : LowerLetters[i] = c]
  ELSE c

Digits == {"0", "1", "2", "3", "4", "5", "6", "7", "8", "9"}

DigitValue(c) ==
  CASE c = "0" -> 0 [] c = "1" -> 1 [] c = "2" -> 2 [] c = "3" -> 3
    [] c = "4" -> 4 [] c = "5" -> 5 [] c = "6" -> 6 [] c = "7" -> 7
    [] c = "8" -> 8 [] c = "9" -> 9

\* int(s) of a non-empty string of decimal digits
RECURSIVE DecimalValue(_)
DecimalValue(s) ==
  IF s = <<>> THEN 0
  ELSE 10 * DecimalValue(SubSeq(s, 1, Len(s) - 1)) + DigitValue(s[Len(s)])

\* [IVXLCDM] under re.IGNORECASE
RomanClass ==
  {"I", "V", "X", "L", "C", "D", "M", "i", "v", "x", "l", "c", "d", "m"}

\* lines 28-31 and 36: roman_values.get(char, 0)
RomanValue(c) ==
  CASE c = "I" -> 1 [] c = "V" -> 5 [] c = "X" -> 10 [] c = "L" -> 50
    [] c = "C" -> 100 [] c = "D" -> 500 [] c = "M" -> 1000 [] OTHER -> 0

\* a plausible slip: no subtraction, every symbol value is added
RECURSIVE RomanLoopAlwaysAdds(_, _, _, _)
RomanLoopAlwaysAdds(roman, k, total, prev) ==
  IF k = 0 THEN total
  ELSE RomanLoopAlwaysAdds(roman, k - 1, total + RomanValue(roman[k]), prev)

\* a plausible slip: prev keeps the largest value met, not the last one
RECURSIVE RomanLoopRunningMax(_, _, _, _)
RomanLoopRunningMax(roman, k, total, prev) ==
  IF k = 0 THEN total
  ELSE LET curr == RomanValue(roman[k])
       IN  RomanLoopRunningMax(roman, k - 1,
                               IF curr < prev THEN total - curr
                               ELSE total + curr,
                               IF curr < prev THEN prev ELSE curr)

\* lines 35-41: the loop over reversed(roman); k is the 1-based index of char
RECURSIVE RomanLoop(_, _, _, _)
RomanLoop(roman, k, total, prev) ==
  IF k = 0 THEN total
  ELSE LET curr == RomanValue(roman[k])
       IN  RomanLoop(roman, k - 1,
                     IF curr < prev THEN total - curr ELSE total + curr, curr)

\* lines 26-42
roman_to_int(roman) ==
  RomanLoop([k \in 1..Len(roman) |-> Upper(roman[k])], Len(roman), 0, 0)

\* str.isdigit() on the model's alphabet
IsDigitString(s) == s # <<>> /\ \A k \in 1..Len(s) : s[k] \in Digits

\* lines 45-54 (roman_to_int has no raise, the except branch is dead)
parse_chapter_number(s0) ==
  LET s == Strip(s0)
  IN  IF IsDigitString(s) THEN DecimalValue(s) ELSE roman_to_int(s)

WordGlava == <<"U+0413", "U+043B", "U+0430", "U+0432", "U+0430">>

WordGLAVA == <<"U+0413", "U+041B", "U+0410", "U+0412", "U+0410">>

WordChapter == <<"C", "h", "a", "p", "t", "e", "r">>

WordCHAPTER == <<"C", "H", "A", "P", "T", "E", "R">>

\* [\s\.\:\-]
TrailingClass == Whitespace \cup {".", ":", "-"}

\* lines 14-23: the three word patterns; the bare-number pattern is NumberedAt
CHAPTER_PATTERNS ==
  << [kind |-> "word", hashes |-> FALSE, words |-> <<WordGlava, WordGLAVA>>,
      trailing |-> TRUE],
     [kind |-> "word", hashes |-> FALSE, words |-> <<WordChapter, WordCHAPTER>>,
      trailing |-> TRUE],
     [kind |-> "word", hashes |-> TRUE,
      words |-> <<WordGlava, WordChapter, WordGLAVA, WordCHAPTER>>,
      trailing |-> FALSE],
     [kind |-> "number"] >>

\* (?:^|\n) at Python offset s under re.MULTILINE: s is the start of the
\* text or follows a newline (^), or the character at s is a newline
AnchorAt(t, s) ==
  \/ s = 0
  \/ t[s] = "\n"
  \/ (s < Len(t) /\ t[s + 1] = "\n")

\* the literal w at 1-based index i, ignoring case
WordAt(t, i, w) ==
  /\ i + Len(w) - 1 <= Len(t)
  /\ \A k \in 1..Len(w) : Lower(t[i + k - 1]) = Lower(w[k])

\* length of the first alternative of words that matches at i, 0 if none
FirstWordLen(t, i, words) ==
  LET hit == {a \in 1..Len(words) : WordAt(t, i, words[a])}
  IN  IF hit = {} THEN 0 ELSE Len(words[SetMin(hit)])

NoMatch == [ok |-> FALSE]

\* one of the first three patterns tried at Python offset s:
\* (?:^|\n) \s* [#{1,3} \s*] (word) \s+ (\d+|[IVXLCDM]+) [[\s\.\:\-]*]
WordHeadingAt(t, s, p) ==
  IF ~AnchorAt(t, s) THEN NoMatch
  ELSE
    LET i0 == RunEnd(t, s + 1, Whitespace)
        h  == RunEnd(t, i0, {"#"}) - i0
        i1 == IF p.hashes THEN RunEnd(t, i0 + h, Whitespace) ELSE i0
        w  == FirstWordLen(t, i1, p.words)
        i2 == i1 + w
        i3 == RunEnd(t, i2, Whitespace)
        i4 == IF i3 <= Len(t) /\ t[i3] \in Digits THEN RunEnd(t, i3, Digits)
              ELSE RunEnd(t, i3, RomanClass)
        i5 == IF p.trailing THEN RunEnd(t, i4, TrailingClass) ELSE i4
    IN  IF (p.hashes => h \in 1..3) /\ w > 0 /\ i3 > i2 /\ i4 > i3
        THEN [ok |-> TRUE, start |-> s, end |-> i5 - 1,
              token |-> SubSeq(t, i3, i4 - 1)]
        ELSE NoMatch

\* the fourth pattern tried at Python offset s: (?:^|\n) \s* (\d+) \. \s+
NumberedAt(t, s) ==
  IF ~AnchorAt(t, s) THEN NoMatch
  ELSE
    LET i0 == RunEnd(t, s + 1, Whitespace)
        i1 == RunEnd(t, i0, Digits)
        i2 == RunEnd(t, i1 + 1, Whitespace)
    IN  IF i1 > i0 /\ i1 <= Len(t) /\ t[i1] = "." /\ i2 > i1 + 1
        THEN [ok |-> TRUE, start |-> s, end |-> i2 - 1,
              token |-> SubSeq(t, i0, i1 - 1)]
        ELSE NoMatch

MatchAt(t, s, p) ==
  IF p.kind = "word" THEN WordHeadingAt(t, s, p) ELSE NumberedAt(t, s)

\* re.finditer: the leftmost match at or after pos, then on from its end
RECURSIVE FindIterFrom(_, _, _, _)
FindIterFrom(t, p, hits, pos) ==
  LET later == {s \in hits : s >= pos}
  IN  IF later = {} THEN <<>>
      ELSE LET m == MatchAt(t, SetMin(later), p)
           IN  <<m>> \o FindIterFrom(t, p, hits, m.end)

FindIter(t, p) ==
  FindIterFrom(t, p, {s \in 0..(Len(t) - 1) : MatchAt(t, s, p).ok}, 0)

\* a plausible slip: the test chapter_num > 0 left out
RECURSIVE ResolvedKeepsAll(_)
ResolvedKeepsAll(ms) ==
  IF ms = <<>> THEN <<>>
  ELSE << <<parse_chapter_number(Head(ms).token), Head(ms).start,
            Head(ms).end>> >> \o ResolvedKeepsAll(Tail(ms))

\* lines 67-75: the matches of one pattern that resolve to a number > 0,
\* as (chapter_num, match.start(), match.end())
RECURSIVE Resolved(_)
Resolved(ms) ==
  IF ms = <<>> THEN <<>>
  ELSE LET chapter_num == parse_chapter_number(Head(ms).token)
       IN  (IF chapter_num > 0
            THEN << <<chapter_num, Head(ms).start, Head(ms).end>> >>
            ELSE <<>>) \o Resolved(Tail(ms))

\* lines 63-75: every pattern in turn over the whole text
RECURSIVE AllMatches(_, _)
AllMatches(t, k) ==
  IF k > Len(CHAPTER_PATTERNS) THEN <<>>
  ELSE Resolved(FindIter(t, CHAPTER_PATTERNS[k])) \o AllMatches(t, k + 1)

\* sorted(xs, key=lambda x: x[1]): stable, ascending start
RECURSIVE SortedByStart(_)
SortedByStart(xs) ==
  IF xs = <<>> THEN <<>>
  ELSE LET rest == SortedByStart(SubSeq(xs, 1, Len(xs) - 1))
           x == xs[Len(xs)]
           k == Cardinality({i \in 1..Len(rest) : rest[i][2] <= x[2]})
       IN  SubSeq(rest, 1, k) \o <<x>> \o SubSeq(rest, k + 1, Len(rest))

\* line 78
Candidates(t) == SortedByStart(AllMatches(t, 1))

\* line 94: the TOC cutoff
TocThreshold == 200

\* a plausible slip: >= in place of > on line 94
IsSubstantialAtThreshold(content) == Len(content) >= TocThreshold

\* a plausible slip: the comparison of line 94 turned around
IsSubstantialInverted(content) == Len(content) < TocThreshold

\* a plausible slip: the content measured without .strip()
TrailingContentUnstripped(t, cands, i) ==
  Slice(t, cands[i][3],
        IF i + 1 <= Len(cands) THEN cands[i + 1][2] ELSE Len(t))

\* lines 84-91: content = text[end:next_start].strip(); i is 1-based
TrailingContent(t, cands, i) ==
  LET next_start == IF i + 1 <= Len(cands) THEN cands[i + 1][2] ELSE Len(t)
  IN  Strip(Slice(t, cands[i][3], next_start))

\* line 94: if len(content) > 200
IsSubstantial(content) == Len(content) > TocThreshold

\* lines 82-95
RECURSIVE ValidFrom(_, _, _)
ValidFrom(t, cands, i) ==
  IF i > Len(cands) THEN <<>>
  ELSE (IF IsSubstantial(TrailingContent(t, cands, i)) THEN <<cands[i]>>
        ELSE <<>>) \o ValidFrom(t, cands, i + 1)

\* a dict is the sequence of its <<key, value>> items in insertion order;
\* d[k] = v replaces the value of a key already present, in place
DictSet(d, k, v) ==
  IF \E i \in 1..Len(d) : d[i][1] = k
  THEN [i \in 1..Len(d) |-> IF d[i][1] = k THEN <<k, v>> ELSE d[i]]
  ELSE Append(d, <<k, v>>)

DictKeys(d) == {d[i][1] : i \in 1..Len(d)}

DictGet(d, k) == d[CHOOSE i \in 1..Len(d) : d[i][1] = k][2]

DictValues(d) == [i \in 1..Len(d) |-> d[i][2]]

\* a plausible slip: the first occurrence of a number is kept
RECURSIVE SeenFirstWins(_, _)
SeenFirstWins(seen, valid) ==
  IF valid = <<>> THEN seen
  ELSE SeenFirstWins(IF Head(valid)[1] \in DictKeys(seen) THEN seen
                     ELSE DictSet(seen, Head(valid)[1], Head(valid)),
                     Tail(valid))

\* lines 99-101: seen[ch[0]] = ch for ch in valid_chapters
RECURSIVE Seen(_, _)
Seen(seen, valid) ==
  IF valid = <<>> THEN seen
  ELSE Seen(DictSet(seen, Head(valid)[1], Head(valid)), Tail(valid))

\* lines 57-103, with the locals chapters and valid_chapters kept
FindChaptersRun(t) ==
  LET sorted == Candidates(t)
      valid == ValidFrom(t, sorted, 1)
  IN  [chapters |-> sorted, valid_chapters |-> valid,
       result |-> SortedByStart(DictValues(Seen(<<>>, valid)))]

find_chapters(t) == FindChaptersRun(t).result

\* a plausible slip: a span ends where the next heading's match ends
RECURSIVE ChapterBoundsToMatchEnd(_, _, _, _)
ChapterBoundsToMatchEnd(t, chs, i, bounds) ==
  IF i > Len(chs) THEN bounds
  ELSE ChapterBoundsToMatchEnd(t, chs, i + 1,
         DictSet(bounds, chs[i][1],
                 <<chs[i][2], IF i + 1 <= Len(chs) THEN chs[i + 1][3] ELSE Len(t)>>))

\* lines 115-122: chapter_bounds[num] = (start, end)
RECURSIVE ChapterBounds(_, _, _, _)
ChapterBounds(t, chs, i, bounds) ==
  IF i > Len(chs) THEN bounds
  ELSE ChapterBounds(t, chs, i + 1,
         DictSet(bounds, chs[i][1],
                 <<chs[i][2], IF i + 1 <= Len(chs) THEN chs[i + 1][2] ELSE Len(t)>>))

\* sorted(nums) of a set of integers
RECURSIVE SortedSet(_)
SortedSet(S) ==
  IF S = {} THEN <<>> ELSE <<SetMin(S)>> \o SortedSet(S \ {SetMin(S)})

\* '\n\n'.join(parts)
RECURSIVE Join(_)
Join(parts) ==
  IF parts = <<>> THEN <<>>
  ELSE IF Len(parts) = 1 THEN parts[1]
  ELSE parts[1] \o <<"\n", "\n">> \o Join(Tail(parts))

\* a plausible slip: one missing number ends the loop
RECURSIVE ExtractLoopStopsAtMissing(_, _, _, _)
ExtractLoopStopsAtMissing(t, bounds, nums, acc) ==
  IF nums = <<>> THEN acc
  ELSE IF Head(nums) \in DictKeys(bounds)
  THEN LET b == DictGet(bounds, Head(nums))
       IN  ExtractLoopStopsAtMissing(t, bounds, Tail(nums),
             [acc EXCEPT !.extracted = Append(@, Strip(Slice(t, b[1], b[2])))])
  ELSE [acc EXCEPT !.warnings =
          Append(@, <<"Warning: Chapter not found", Head(nums),
                      SortedSet(DictKeys(bounds))>>)]

\* lines 125-131: for num in sorted(chapter_nums)
RECURSIVE ExtractLoop(_, _, _, _)
ExtractLoop(t, bounds, nums, acc) ==
  IF nums = <<>> THEN acc
  ELSE IF Head(nums) \in DictKeys(bounds)
  THEN LET b == DictGet(bounds, Head(nums))
       IN  ExtractLoop(t, bounds, Tail(nums),
             [acc EXCEPT !.extracted = Append(@, Strip(Slice(t, b[1], b[2])))])
  ELSE ExtractLoop(t, bounds, Tail(nums),
         [acc EXCEPT !.warnings =
            Append(@, <<"Warning: Chapter not found", Head(nums),
                        SortedSet(DictKeys(bounds))>>)])

\* a plausible slip: no fallback, the empty selection is joined
ExtractFromNoFallback(t, chs, chapter_nums) ==
  LET bounds == ChapterBounds(t, chs, 1, <<>>)
      run == ExtractLoop(t, bounds, SortedSet(chapter_nums),
                         [extracted |-> <<>>, warnings |-> <<>>])
  IN  [result |-> Join(run.extracted), warnings |-> run.warnings,
       chapter_bounds |-> bounds]

\* lines 110-133: extract_chapters after chapters = find_chapters(text)
ExtractFrom(t, chs, chapter_nums) ==
  IF chs = <<>>
  THEN [result |-> t,
        warnings |-> << <<"Warning: No chapter markers found. Returning full text.">> >>,
        chapter_bounds |-> <<>>]
  ELSE LET bounds == ChapterBounds(t, chs, 1, <<>>)
           run == ExtractLoop(t, bounds, SortedSet(chapter_nums),
                              [extracted |-> <<>>, warnings |-> <<>>])
       IN  [result |-> Join(run.extracted), warnings |-> run.warnings,
            chapter_bounds |-> bounds]

\* lines 106-133
extract_chapters(t, chapter_nums) ==
  ExtractFrom(t, find_chapters(t), chapter_nums).result

(***************************************************************************)
(* extract_chapters.py: parse_chapter_arg                                  *)
(***************************************************************************)
\* [,\s]
ArgSeparators == Whitespace \cup {","}

\* re.split(r'[,\s]+', arg): cut at every maximal run of separators
RECURSIVE SplitArgFrom(_, _, _)
SplitArgFrom(s, i, st) ==
  IF i > Len(s) THEN <<SubSeq(s, st, Len(s))>>
  ELSE IF s[i] \in ArgSeparators
       THEN LET j == RunEnd(s, i, ArgSeparators)
            IN  <<SubSeq(s, st, i - 1)>> \o SplitArgFrom(s, j, j)
       ELSE SplitArgFrom(s, i + 1, st)

SplitArg(s) == SplitArgFrom(s, 1, 1)

\* int(s) succeeds: an optional sign and decimal digits (on the model's
\* alphabet, which has no underscore and no whitespace inside a token)
IntOk(s) ==
  LET body == IF s # <<>> /\ s[1] \in {"+", "-"} THEN Tail(s) ELSE s
  IN  IsDigitString(body)

\* int(s) where IntOk(s)
IntOf(s) ==
  IF s[1] = "-" THEN 0 - DecimalValue(Tail(s))
  ELSE IF s[1] = "+" THEN DecimalValue(Tail(s))
  ELSE DecimalValue(s)

\* a plausible slip: range(start, end), the upper end left out
RangeListExclusive(start, end) ==
  IF end - 1 < start THEN <<>> ELSE [k \in 1..(end - start) |-> start + k - 1]

\* line 154: list(range(start, end + 1))
RangeList(start, end) ==
  IF end < start THEN <<>> ELSE [k \in 1..(end - start + 1) |-> start + k - 1]

\* part.split('-', 1) of a part that holds a '-'
SplitAtDash(part) ==
  LET d == CHOOSE k \in 1..Len(part) :
             part[k] = "-" /\ \A j \in 1..(k - 1) : part[j] # "-"
  IN  <<SubSeq(part, 1, d - 1), SubSeq(part, d + 1, Len(part))>>

\* lines 145-162: one part of the split argument
ParsePart(acc, raw) ==
  LET part == Strip(raw)
  IN  IF part = <<>> THEN acc
      ELSE IF \E k \in 1..Len(part) : part[k] = "-"
      THEN LET ends == SplitAtDash(part)
           IN  IF IntOk(ends[1]) /\ IntOk(ends[2])
               THEN [acc EXCEPT !.chapters =
                       @ \o RangeList(IntOf(ends[1]), IntOf(ends[2]))]
               ELSE [acc EXCEPT !.warnings =
                       Append(@, <<"Warning: Invalid range", part>>)]
      ELSE IF IntOk(part)
      THEN [acc EXCEPT !.chapters = Append(@, IntOf(part))]
      ELSE [acc EXCEPT !.warnings =
              Append(@, <<"Warning: Invalid chapter number", part>>)]

\* line 144: for part in parts
RECURSIVE ParseParts(_, _)
ParseParts(acc, parts) ==
  IF parts = <<>> THEN acc
  ELSE ParseParts(ParsePart(acc, Head(parts)), Tail(parts))

\* x put at its place in an ascending duplicate-free list, once
InsertSorted(sorted, x) ==
  IF \E k \in 1..Len(sorted) : sorted[k] = x THEN sorted
  ELSE LET below == Cardinality({k \in 1..Len(sorted) : sorted[k] < x})
       IN  SubSeq(sorted, 1, below) \o <<x>>
             \o SubSeq(sorted, below + 1, Len(sorted))

\* line 164: sorted(set(chapters))
RECURSIVE SortedDistinct(_)
SortedDistinct(nums) ==
  IF nums = <<>> THEN <<>>
  ELSE InsertSorted(SortedDistinct(Tail(nums)), Head(nums))

\* lines 136-164, with what was printed to stderr
ParseChapterArgRun(a) ==
  LET run == ParseParts([chapters |-> <<>>, warnings |-> <<>>], SplitArg(a))
  IN  [result |-> SortedDistinct(run.chapters), warnings |-> run.warnings]

parse_chapter_arg(a) == ParseChapterArgRun(a).result

(***************************************************************************)
(* Inputs of the chunker                                                   *)
(***************************************************************************)
MaxTextLen == 6

MaxParas == 2

MaxMaxChars == 5

ChunkAlphabet == {"a", ".", " ", "\n"}

\* stripped paragraphs with one, two and three sentence units
SampleParas ==
  { <<"a">>, <<"a", "a", ".">>, <<"a", ".", " ", "a">>,
    <<".", " ", ".", " ", "a">>, <<"a", "a", "a", "a">>,
    <<"a", ".", " ", "a", ".", " ", "a">>, <<"a", "!", "?", "\n", "a">> }

ParaSeparators == { <<"\n", "\n">>, <<" ", "\n", "\n", "\n">> }

RECURSIVE JoinedParas(_)
JoinedParas(n) ==
  IF n = 1 THEN SampleParas
  ELSE JoinedParas(n - 1) \cup
       { t \o sep \o p : t \in JoinedParas(n - 1), sep \in ParaSeparators,
                         p \in SampleParas }

ChunkTexts ==
  UNION { [1..n -> ChunkAlphabet] : n \in 0..MaxTextLen } \cup JoinedParas(MaxParas)

MaxCharsValues == (-1)..MaxMaxChars

Null == <<>>

NoRechunk == rechunk_of = 0 /\ rechunked = Null

NoRoman == numeral = Null /\ roman_total = 0

NoDriver ==
  /\ driver = "none" /\ idx = 0 /\ temp_files = <<>> /\ merge_calls = <<>>
  /\ synthesized = <<>>

InitChunk ==
  /\ pc = "start"
  /\ text \in ChunkTexts
  /\ maxChars \in MaxCharsValues
  /\ chunks = <<>>
  /\ outcome = "none"
  /\ candidates = Null /\ valid_chapters = Null /\ chapters = Null
  /\ requested = {} /\ extracted = Null /\ stderr = <<>>
  /\ arg = Null /\ parsed = Null /\ shape = Null /\ chapter_bounds = Null
  /\ NoRechunk /\ NoRoman /\ NoDriver

\* a direct call split_text_smart(text, max_chars): the function has no raise
CallSplitTextSmart ==
  /\ pc = "start"
  /\ chunks' = split_text_smart(text, maxChars)
  /\ outcome' = "returned"
  /\ pc' = "done"
  /\ UNCHANGED <<text, maxChars, candidates, valid_chapters, chapters,
                 requested, extracted, stderr, arg, parsed, shape,
                 chapter_bounds>>
  /\ UNCHANGED <<rechunkVars, romanVars, driverVars>>

\* md_to_audiobook.py main, lines 290-318: --max-chars is any int (type=int),
\* a blank file exits, otherwise the text is chunked with args.max_chars
MainSplit ==
  /\ pc = "start"
  /\ IF Strip(text) = <<>>
     THEN /\ outcome' = "exit_empty_input"
          /\ stderr' = Append(stderr, <<"Error: Input file is empty.">>)
          /\ chunks' = chunks
     ELSE /\ outcome' = "returned"
          /\ stderr' = stderr
          /\ chunks' = split_text_smart(text, maxChars)
  /\ pc' = "done"
  /\ UNCHANGED <<text, maxChars, candidates, valid_chapters, chapters,
                 requested, extracted, arg, parsed, shape, chapter_bounds>>
  /\ UNCHANGED <<rechunkVars, romanVars, driverVars>>

\* split_text_smart called again, on the k-th chunk of a finished run and
\* with the same max_chars
Rechunk(k) ==
  /\ pc = "done" /\ outcome = "returned"
  /\ k \in 1..Len(chunks)
  /\ rechunk_of' = k
  /\ rechunked' = split_text_smart(chunks[k], maxChars)
  /\ pc' = "rechunked"
  /\ UNCHANGED <<text, maxChars, chunks, outcome, candidates, valid_chapters,
                 chapters, requested, extracted, stderr, arg, parsed, shape,
                 chapter_bounds, romanVars, driverVars>>

NextChunk ==
  \/ CallSplitTextSmart
  \/ MainSplit
  \/ \E k \in 1..MaxTextLen : Rechunk(k)

SpecChunk == InitChunk /\ [][NextChunk]_vars

(***************************************************************************)
(* Claims about the chunker                                                *)
(***************************************************************************)
NonWhitespace(s) == SelectSeq(s, LAMBDA c : ~IsSpace(c))

\* s occurs contiguously in t
OccursIn(s, t) ==
  \E k \in 0..(Len(t) - Len(s)) : SubSeq(t, k + 1, k + Len(s)) = s

\* the sentence units of every paragraph of t, as the chunker cuts them
UnitsOfPara(para) ==
  LET ss == SplitSentences(para)
  IN  { SentenceUnit(ss, 2 * k) : k \in 0..((Len(ss) - 1) \div 2) }

SentenceUnitsOf(t) ==
  LET ps == SplitParagraphs(t)
  IN  UNION { UnitsOfPara(Strip(ps[i])) : i \in 1..Len(ps) }

Chunked == pc = "done" /\ outcome = "returned"

\* C1: for maxChars >= 1 every chunk has length <= maxChars, unless the chunk
\* is exactly one sentence unit that is itself longer than maxChars.
C1_ChunkWithinBudget ==
  (Chunked /\ maxChars >= 1) =>
    \A i \in 1..Len(chunks) :
      \/ Len(chunks[i]) <= maxChars
      \/ \E u \in SentenceUnitsOf(text) :
           Len(u) > maxChars /\ chunks[i] = Strip(u)

\* C2: for maxChars >= 1 the chunks, concatenated in order, are the input's
\* non-whitespace characters in their order, and every paragraph piece of a
\* chunk is a contiguous piece of the input (only boundary whitespace differs).
C2_ContentPreserved ==
  (Chunked /\ maxChars >= 1) =>
    /\ NonWhitespace(Concat(chunks)) = NonWhitespace(text)
    /\ \A i \in 1..Len(chunks) :
         LET pieces == SplitParagraphs(chunks[i])
         IN  \A j \in 1..Len(pieces) : OccursIn(pieces[j], text)

C2_Witness ==
  /\ Chunked /\ maxChars >= 1
  /\ Len(chunks) >= 3
  /\ \E i \in 1..Len(chunks) : Len(SplitParagraphs(chunks[i])) >= 2
  /\ Len(SplitSentences(Strip(Head(SplitParagraphs(text))))) >= 3

\* C3: with maxChars <= 0 the chunker fails with an invalid-argument error
\* and returns no chunk sequence.
C3_NonPositiveBudgetRejected ==
  (pc = "done" /\ maxChars <= 0) =>
    (outcome = "invalid_argument" /\ chunks = <<>>)

\* C11: a returned chunk that is within the budget (maxChars >= 1) is
\* returned unchanged, as the only chunk, when it is chunked again with the
\* same maxChars.
C11_RechunkIdempotent ==
  (pc = "rechunked" /\ maxChars >= 1 /\ Len(chunks[rechunk_of]) <= maxChars)
    => rechunked = <<chunks[rechunk_of]>>

\* a within-budget chunk of two paragraphs, from a run with several chunks
C11_Witness ==
  /\ pc = "rechunked" /\ maxChars >= 1
  /\ Len(chunks) >= 2
  /\ Len(chunks[rechunk_of]) <= maxChars
  /\ OccursIn(<<"\n", "\n">>, chunks[rechunk_of])
  /\ rechunked = <<chunks[rechunk_of]>>

\* the sentence units of a stripped paragraph, in order
UnitSeqOfPara(para) ==
  LET ss == SplitSentences(para)
  IN  [k \in 1..((Len(ss) + 1) \div 2) |-> SentenceUnit(ss, 2 * (k - 1))]

\* the sentence units longer than maxChars of the paragraphs of t that are
\* cut into sentences, in text order and trimmed as a chunk is
RECURSIVE OversizedUnits(_)
OversizedUnits(paras) ==
  IF paras = <<>> THEN <<>>
  ELSE LET para == Strip(Head(paras))
           units == IF Len(para) > maxChars THEN UnitSeqOfPara(para) ELSE <<>>
           over == SelectSeq(units, LAMBDA u : Len(u) > maxChars)
       IN  [k \in 1..Len(over) |-> Strip(over[k])] \o OversizedUnits(Tail(paras))

\* a is b with some entries left out
RECURSIVE IsSubsequence(_, _)
IsSubsequence(a, b) ==
  IF a = <<>> THEN TRUE
  ELSE IF b = <<>> THEN FALSE
  ELSE IF Head(a) = Head(b) THEN IsSubsequence(Tail(a), Tail(b))
  ELSE IsSubsequence(a, Tail(b))

\* C16: every sentence unit longer than maxChars is a chunk of its own, not
\* split and with nothing before or after it in the chunk: the oversized
\* units, in text order, are chunks of the result, one chunk each.
C16_OversizedUnitAlone ==
  (Chunked /\ maxChars >= 1) =>
    IsSubsequence(OversizedUnits(SplitParagraphs(text)), chunks)

\* an oversized sentence unit between two other sentences of its paragraph
C16_Witness ==
  /\ Chunked /\ maxChars >= 1
  /\ Len(chunks) >= 3
  /\ Len(chunks[2]) > maxChars
  /\ \E k \in 1..Len(OversizedUnits(SplitParagraphs(text))) :
       OversizedUnits(SplitParagraphs(text))[k] = chunks[2]
  /\ Len(chunks[1]) <= maxChars

(***************************************************************************)
(* Inputs of the chapter locator: documents made of sections, a heading    *)
(* followed by prose whose length is around the TOC cutoff                 *)
(***************************************************************************)
MaxSections == 2

MaxRequested == 2

Filler(n) == [i \in 1..n |-> "o"]

\* "\nChapter 1\n", "\nchapter II. ", "\n## <Glava> 1\n", "\n2. ", "\nChapter 0\n"
HeadingTexts ==
  { <<"\n", "C", "h", "a", "p", "t", "e", "r", " ", "1", "\n">>,
    <<"\n", "c", "h", "a", "p", "t", "e", "r", " ", "I", "I", ".", " ">>,
    <<"\n", "#", "#", " ">> \o WordGlava \o <<" ", "1", "\n">>,
    <<"\n", "2", ".", " ">>,
    <<"\n", "C", "h", "a", "p", "t", "e", "r", " ", "0", "\n">> }

ProseTexts ==
  { Filler(5), Filler(TocThreshold - 1) \o <<" ", " ">>, Filler(TocThreshold),
    Filler(TocThreshold + 1) }

RECURSIVE SectionDocs(_)
SectionDocs(n) ==
  IF n = 0 THEN { <<>> }
  ELSE { d \o h \o p : d \in SectionDocs(n - 1), h \in HeadingTexts,
                          p \in ProseTexts }

\* text before the first heading
Preambles == { <<>>, Filler(5), <<" ", "\n">> }

ChapterDocs ==
  { pre \o d : pre \in Preambles,
               d \in UNION { SectionDocs(n) : n \in 0..MaxSections } }

InitChapters ==
  /\ pc = "start"
  /\ text \in ChapterDocs
  /\ maxChars = 0 /\ chunks = <<>> /\ outcome = "none"
  /\ candidates = Null /\ valid_chapters = Null /\ chapters = Null
  /\ requested = {} /\ extracted = Null /\ stderr = <<>>
  /\ arg = Null /\ parsed = Null /\ shape = Null /\ chapter_bounds = Null
  /\ NoRechunk /\ NoRoman /\ NoDriver

\* find_chapters(text), called on line 197 (--list) and on line 108
FindChapters ==
  /\ pc = "start"
  /\ \E run \in {FindChaptersRun(text)} :
         /\ candidates' = run.chapters
         /\ valid_chapters' = run.valid_chapters
         /\ chapters' = run.result
  /\ pc' = "located"
  /\ UNCHANGED <<text, maxChars, chunks, outcome, requested, extracted, stderr,
                 arg, parsed, shape, chapter_bounds>>
  /\ UNCHANGED <<rechunkVars, romanVars, driverVars>>

\* main, lines 196-206: --list prints what find_chapters returned
ListChapters ==
  /\ pc = "located"
  /\ outcome' = IF chapters = <<>> THEN "no_chapters_found" ELSE "listed"
  /\ pc' = "listed"
  /\ UNCHANGED <<text, maxChars, chunks, candidates, valid_chapters, chapters,
                 requested, extracted, stderr, arg, parsed, shape, chapter_bounds>>
  /\ UNCHANGED <<rechunkVars, romanVars, driverVars>>

\* extract_chapters lines 110-133 for the chapter numbers nums, then main
\* lines 220-224: an empty extraction is an error exit
ExtractChapters(nums) ==
  /\ pc = "located"
  /\ \E run \in {ExtractFrom(text, chapters, nums)} :
         /\ extracted' = run.result
         /\ chapter_bounds' = run.chapter_bounds
         /\ IF run.result = <<>>
            THEN /\ stderr' = stderr \o run.warnings
                                \o << <<"Error: No content extracted">> >>
                 /\ outcome' = "exit_no_content"
            ELSE /\ stderr' = stderr \o run.warnings
                 /\ outcome' = "extracted"
  /\ requested' = nums
  /\ pc' = "extracted"
  /\ UNCHANGED <<text, maxChars, chunks, candidates, valid_chapters, chapters,
                 arg, parsed, shape>>
  /\ UNCHANGED <<rechunkVars, romanVars, driverVars>>

NextChapters ==
  \/ FindChapters
  \/ ListChapters
  \/ \E nums \in SUBSET (1..MaxRequested) : ExtractChapters(nums)

SpecChapters == InitChapters /\ [][NextChapters]_vars

(***************************************************************************)
(* Documents with a table of contents: a TOC block listing chapters 1..n,  *)
(* each entry followed by one short line, then the n chapters themselves   *)
(***************************************************************************)
MaxTocChapters == 3

DigitChars == <<"1", "2", "3", "4", "5", "6", "7", "8", "9">>

RomanNumerals ==
  << <<"I">>, <<"I", "I">>, <<"I", "I", "I">>, <<"I", "V">>, <<"V">> >>

TocStyles == {"plain", "markdown", "glava", "roman", "numbered"}

HeadingOf(style, k) ==
  CASE style = "plain" -> <<"\n">> \o WordChapter \o <<" ", DigitChars[k], "\n">>
    [] style = "markdown" ->
         <<"\n", "#", "#", " ">> \o WordChapter \o <<" ", DigitChars[k], "\n">>
    [] style = "glava" -> <<"\n">> \o WordGlava \o <<" ", DigitChars[k], "\n">>
    [] style = "roman" ->
         <<"\n">> \o WordCHAPTER \o <<" ">> \o RomanNumerals[k] \o <<"\n">>
    [] style = "numbered" -> <<"\n", DigitChars[k], ".", " ">>

RECURSIVE TocBlock(_, _, _)
TocBlock(style, short, n) ==
  IF n = 0 THEN <<>>
  ELSE TocBlock(style, short, n - 1) \o HeadingOf(style, n) \o short

RECURSIVE Body(_, _, _)
Body(style, len, n) ==
  IF n = 0 THEN <<>>
  ELSE Body(style, len, n - 1) \o HeadingOf(style, n) \o Filler(len)

TocShapes ==
  [n : 1..MaxTocChapters, style : TocStyles,
   short : {Filler(3), <<"p", ".", " ", "7">>},
   len : {TocThreshold + 1, TocThreshold + 50},
   title : {<<>>, <<"T", "O", "C">>}]

TocDoc(sh) ==
  sh.title \o TocBlock(sh.style, sh.short, sh.n) \o Body(sh.style, sh.len, sh.n)

\* offset of the k-th chapter heading of the body
RealStart(sh, k) ==
  Len(sh.title) + Len(TocBlock(sh.style, sh.short, sh.n))
    + Len(Body(sh.style, sh.len, k - 1))

InitToc ==
  /\ pc = "start"
  /\ shape \in TocShapes
  /\ text = TocDoc(shape)
  /\ maxChars = 0 /\ chunks = <<>> /\ outcome = "none"
  /\ candidates = Null /\ valid_chapters = Null /\ chapters = Null
  /\ requested = {} /\ extracted = Null /\ stderr = <<>>
  /\ arg = Null /\ parsed = Null /\ chapter_bounds = Null
  /\ NoRechunk /\ NoRoman /\ NoDriver

SpecToc == InitToc /\ [][NextChapters]_vars

(***************************************************************************)
(* Claims about the chapter locator                                        *)
(***************************************************************************)
Located == pc \in {"located", "listed", "extracted"}

Range(f) == {f[i] : i \in DOMAIN f}

\* the span the extraction uses for the i-th entry of chapters
SpanOf(i) == DictGet(chapter_bounds, chapters[i][1])

\* C4: the chapter spans are ordered by ascending start, do not overlap, are
\* contiguous from the first span's start on, and the last ends at the end
\* of the document.
C4_SpansOrderedContiguous ==
  (pc = "extracted" /\ chapters # <<>>) =>
    /\ Len(chapter_bounds) = Len(chapters)
    /\ \A i \in 1..Len(chapters) :
         SpanOf(i)[1] = chapters[i][2] /\ SpanOf(i)[1] < SpanOf(i)[2]
    /\ \A i \in 1..(Len(chapters) - 1) :
         SpanOf(i)[1] < SpanOf(i + 1)[1] /\ SpanOf(i)[2] = SpanOf(i + 1)[1]
    /\ \A i, j \in 1..Len(chapters) : i < j => SpanOf(i)[2] <= SpanOf(j)[1]
    /\ SpanOf(Len(chapters))[2] = Len(text)

C4_Witness ==
  pc = "extracted" /\ Len(chapters) >= 2 /\ chapters[1][2] > 0

\* length of the whitespace-trimmed trailing window of candidate i: the text
\* from its end to the start of the next candidate, or to the end of the text
TrimmedWindowLen(i) ==
  LET from == candidates[i][3]
      to == IF i < Len(candidates) THEN candidates[i + 1][2] ELSE Len(text)
      first == RunEnd(text, from + 1, Whitespace)
  IN  IF first > to THEN 0 ELSE RunBegin(text, to, Whitespace) - first + 1

\* C5: a candidate whose trimmed trailing window has fewer than 200
\* characters is excluded by the TOC filter, one with 201 or more is kept.
C5_TocFilter ==
  Located =>
    \A i \in 1..Len(candidates) :
      /\ TrimmedWindowLen(i) < 200 => candidates[i] \notin Range(valid_chapters)
      /\ TrimmedWindowLen(i) >= 201 => candidates[i] \in Range(valid_chapters)

C5_Witness ==
  /\ pc = "located"
  /\ \E i, j \in 1..Len(candidates) :
       /\ TrimmedWindowLen(i) = 199 /\ candidates[i] \notin Range(valid_chapters)
       /\ TrimmedWindowLen(j) = 201 /\ candidates[j] \in Range(valid_chapters)

Discarded(i) == candidates[i] \notin Range(valid_chapters)

\* C14, as stated: the TOC filter discards a candidate only when its trimmed
\* trailing window is shorter than 200 characters, so a window of exactly 200
\* characters survives.
C14_Exactly200Survives ==
  Located =>
    \A i \in 1..Len(candidates) : Discarded(i) => TrimmedWindowLen(i) < 200

\* C14, amended: the TOC filter discards a candidate only when its trimmed
\* trailing window has 200 characters or fewer, and a window of exactly 200
\* characters is discarded.
C14_Exactly200Discarded ==
  Located =>
    \A i \in 1..Len(candidates) :
      /\ Discarded(i) => TrimmedWindowLen(i) <= 200
      /\ TrimmedWindowLen(i) = 200 => Discarded(i)

\* a candidate with exactly 200 characters after it, next to one that is kept
C14_Witness ==
  /\ Located
  /\ \E i, j \in 1..Len(candidates) :
       /\ TrimmedWindowLen(i) = 200 /\ Discarded(i)
       /\ ~Discarded(j)

\* C6: for every number with a candidate surviving the TOC filter the result
\* holds exactly one entry, the surviving candidate of greatest start, and no
\* number appears twice.
C6_LastOccurrenceWins ==
  Located =>
    /\ \A v \in Range(valid_chapters) :
         LET same == {w \in Range(valid_chapters) : w[1] = v[1]}
             last == CHOOSE w \in same : \A x \in same : x[2] <= w[2]
         IN  {i \in 1..Len(chapters) : chapters[i][1] = v[1]}
               = {i \in 1..Len(chapters) : chapters[i] = last}
             /\ Cardinality({i \in 1..Len(chapters) : chapters[i] = last}) = 1
    /\ \A i, j \in 1..Len(chapters) :
         chapters[i][1] = chapters[j][1] => i = j
    /\ Range(chapters) \subseteq Range(valid_chapters)

C6_Witness ==
  /\ pc = "located"
  /\ \E v, w \in Range(valid_chapters) : v[1] = w[1] /\ v[2] < w[2]

\* C7: on a document with a TOC block for chapters 1..n followed by the n
\* chapters, find_chapters returns n entries, numbered 1..n, each at its
\* chapter heading and none inside the TOC block.
C7_TocRejected ==
  (Located /\ shape # Null) =>
    /\ Len(chapters) = shape.n
    /\ \A k \in 1..Len(chapters) :
         /\ chapters[k][1] = k
         /\ k <= shape.n => chapters[k][2] = RealStart(shape, k)
         /\ chapters[k][2] >= RealStart(shape, 1)

C7_Witness ==
  /\ pc = "located" /\ shape # Null /\ shape.n = 3
  /\ Len(candidates) = 6 /\ Len(chapters) = 3

\* C8: when no candidate survives, find_chapters returns the empty sequence
\* and extract_chapters returns the whole text, whatever was requested.
C8_NoChaptersFallback ==
  /\ (Located /\ (candidates = <<>> \/ valid_chapters = <<>>)) => chapters = <<>>
  /\ (pc = "extracted" /\ chapters = <<>>) => extracted = text

C8_Witness ==
  /\ pc = "extracted" /\ candidates # <<>> /\ chapters = <<>>
  /\ requested # {} /\ Strip(text) # <<>> /\ extracted = text

LocatedNums == {chapters[i][1] : i \in 1..Len(chapters)}

\* the whitespace-trimmed text from the heading numbered n to the next
\* located heading, or to the end of the text
SpanText(n) ==
  LET i == CHOOSE k \in 1..Len(chapters) : chapters[k][1] = n
      to == IF i < Len(chapters) THEN chapters[i + 1][2] ELSE Len(text)
  IN  Strip(Slice(text, chapters[i][2], to))

NotFoundReports ==
  SelectSeq(stderr, LAMBDA e : e[1] = "Warning: Chapter not found")

\* C9: with a chapter located, the extraction is the trimmed span text of the
\* requested chapters that were located, in ascending number, and each
\* requested number that was not located is reported once.
C9_PartialExtraction ==
  (pc = "extracted" /\ chapters # <<>>) =>
    LET found == SortedSet(requested \cap LocatedNums)
        missing == SortedSet(requested \ LocatedNums)
    IN  /\ extracted = Join([k \in 1..Len(found) |-> SpanText(found[k])])
        /\ [k \in 1..Len(NotFoundReports) |-> NotFoundReports[k][2]] = missing

C9_Witness ==
  /\ pc = "extracted" /\ chapters # <<>>
  /\ \E a \in requested \ LocatedNums, b \in requested \cap LocatedNums : a < b
  /\ extracted # <<>>

ZeroHeading == <<"\n", "C", "h", "a", "p", "t", "e", "r", " ", "0", "\n">>

\* the text has ZeroHeading at Python offset at
ZeroHeadingAt(at) ==
  /\ at + Len(ZeroHeading) <= Len(text)
  /\ SubSeq(text, at + 1, at + Len(ZeroHeading)) = ZeroHeading

\* C13: every entry find_chapters returns has a chapter number >= 1; a
\* heading whose number token resolves to 0 is no marker at any stage, and it
\* is dropped without a diagnostic or an error.
C13_NumbersPositive ==
  Located =>
    /\ \A e \in Range(candidates) \cup Range(valid_chapters)
                \cup Range(chapters) : e[1] >= 1 /\ ~ZeroHeadingAt(e[2])
    /\ pc = "located" => stderr = <<>> /\ outcome = "none"

\* a "Chapter 0" heading with more than 200 characters of prose after it,
\* in a document with another chapter that is located
C13_Witness ==
  /\ Located
  /\ ZeroHeadingAt(0)
  /\ Len(text) >= Len(ZeroHeading) + TocThreshold + 1
  /\ \A k \in 1..(TocThreshold + 1) : text[Len(ZeroHeading) + k] = "o"
  /\ chapters # <<>>

(***************************************************************************)
(* Inputs of the chapter selection parser                                  *)
(***************************************************************************)
MaxArgLen == 4

MaxTokens == 3

ArgAlphabet == {"1", "2", "-", "+", ",", " ", "a"}

\* every selection string of at most MaxArgLen characters
ShortArgs == UNION { [1..n -> ArgAlphabet] : n \in 0..MaxArgLen }

\* bare numbers, ranges (ascending, reversed) and malformed tokens
ArgTokens ==
  { <<"7">>, <<"8">>, <<"1", "0", "-", "1", "2">>, <<"5", "-", "3">>,
    <<"a", "b", "c">>, <<"1", "-", "5">>, <<"-", "3">>, <<"7", "a">> }

ArgJoiners == { <<",">>, <<",", " ">> }

RECURSIVE TokenLists(_)
TokenLists(n) ==
  IF n = 1 THEN ArgTokens
  ELSE { l \o sep \o t :
           l \in TokenLists(n - 1), sep \in ArgJoiners, t \in ArgTokens }

ParseArgs == ShortArgs \cup UNION { TokenLists(n) : n \in 1..MaxTokens }

InitParse ==
  /\ pc = "start"
  /\ arg \in ParseArgs
  /\ text = <<>> /\ maxChars = 0 /\ chunks = <<>> /\ outcome = "none"
  /\ candidates = Null /\ valid_chapters = Null /\ chapters = Null
  /\ requested = {} /\ extracted = Null /\ stderr = <<>>
  /\ parsed = Null /\ shape = Null /\ chapter_bounds = Null
  /\ NoRechunk /\ NoRoman /\ NoDriver

\* a direct call parse_chapter_arg(arg): the function has no raise
CallParseChapterArg ==
  /\ pc = "start"
  /\ LET run == ParseChapterArgRun(arg)
     IN  /\ parsed' = run.result
         /\ stderr' = stderr \o run.warnings
  /\ outcome' = "returned"
  /\ pc' = "parsed"
  /\ UNCHANGED <<text, maxChars, chunks, candidates, valid_chapters, chapters,
                 requested, extracted, arg, shape, chapter_bounds>>
  /\ UNCHANGED <<rechunkVars, romanVars, driverVars>>

\* main, lines 209-218: an empty --chapters exits before the parse, and a
\* selection that parses to nothing is an error exit
MainParse ==
  /\ pc = "start"
  /\ IF arg = <<>>
     THEN /\ stderr' = Append(stderr, <<"Error: --chapters or --list required">>)
          /\ outcome' = "exit_chapters_required"
          /\ parsed' = parsed
          /\ pc' = "exited"
     ELSE LET run == ParseChapterArgRun(arg)
          IN  /\ parsed' = run.result
              /\ pc' = "parsed"
              /\ IF run.result = <<>>
                 THEN /\ stderr' = stderr \o run.warnings \o
                           << <<"Error: No valid chapter numbers specified">> >>
                      /\ outcome' = "exit_no_valid_numbers"
                 ELSE /\ stderr' = stderr \o run.warnings
                      /\ outcome' = "selected"
  /\ UNCHANGED <<text, maxChars, chunks, candidates, valid_chapters, chapters,
                 requested, extracted, arg, shape, chapter_bounds>>
  /\ UNCHANGED <<rechunkVars, romanVars, driverVars>>

NextParse == CallParseChapterArg \/ MainParse

SpecParse == InitParse /\ [][NextParse]_vars

(***************************************************************************)
(* Claims about the chapter selection parser                               *)
(***************************************************************************)
IsSeparator(c) == c = "," \/ IsSpace(c)

\* the tokens of arg, as index intervals: the maximal separator-free runs
TokenSpans ==
  { sp \in (1..Len(arg)) \X (1..Len(arg)) :
      /\ sp[1] <= sp[2]
      /\ \A k \in sp[1]..sp[2] : ~IsSeparator(arg[k])
      /\ sp[1] = 1 \/ IsSeparator(arg[sp[1] - 1])
      /\ sp[2] = Len(arg) \/ IsSeparator(arg[sp[2] + 1]) }

TokenAt(sp) == SubSeq(arg, sp[1], sp[2])

\* a decimal numeral, with an optional plus sign
UnsignedNumeral(s) ==
  LET d == IF s # <<>> /\ s[1] = "+" THEN Tail(s) ELSE s
  IN  d # <<>> /\ \A k \in 1..Len(d) : d[k] \in Digits

\* a decimal numeral, with an optional sign
SignedNumeral(s) ==
  \/ UnsignedNumeral(s)
  \/ /\ Len(s) >= 2 /\ s[1] = "-"
     /\ \A k \in 2..Len(s) : s[k] \in Digits

NumeralValue(s) ==
  IF s[1] = "-" THEN 0 - DecimalValue(Tail(s))
  ELSE IF s[1] = "+" THEN DecimalValue(Tail(s))
  ELSE DecimalValue(s)

\* the places where the token reads as a range A-B
RangeDashes(tok) ==
  { d \in 1..Len(tok) :
      /\ tok[d] = "-"
      /\ UnsignedNumeral(SubSeq(tok, 1, d - 1))
      /\ SignedNumeral(SubSeq(tok, d + 1, Len(tok))) }

WellFormed(tok) == UnsignedNumeral(tok) \/ RangeDashes(tok) # {}

\* what a token selects: its value, or the inclusive interval A..B
TokenValues(tok) ==
  IF UnsignedNumeral(tok) THEN {NumeralValue(tok)}
  ELSE UNION { NumeralValue(SubSeq(tok, 1, d - 1))
                 .. NumeralValue(SubSeq(tok, d + 1, Len(tok))) :
               d \in RangeDashes(tok) }

\* the malformed tokens of arg, from left to right
MalformedTokens ==
  LET at == SortedSet({ sp[1] : sp \in { q \in TokenSpans :
                                           ~WellFormed(TokenAt(q)) } })
  IN  [k \in 1..Len(at) |->
         TokenAt(CHOOSE sp \in TokenSpans : sp[1] = at[k])]

ParseWarnings == SelectSeq(stderr, LAMBDA e : Len(e) = 2)

\* C10: the parsed selection is the ascending duplicate-free list of the
\* values of the bare integer tokens and of the inclusive intervals A..B of
\* the range tokens A-B (nothing when A > B); a malformed token adds nothing,
\* leaves the other tokens' values alone and is reported, each one once.
C10_SelectionParsed ==
  pc = "parsed" =>
    /\ \A k \in 1..(Len(parsed) - 1) : parsed[k] < parsed[k + 1]
    /\ Range(parsed) = UNION { TokenValues(TokenAt(sp)) : sp \in TokenSpans }
    /\ [k \in 1..Len(ParseWarnings) |-> ParseWarnings[k][2]] = MalformedTokens
    /\ arg = <<"7", ",", "8", ",", "1", "0", "-", "1", "2">>
         => parsed = <<7, 8, 10, 11, 12>>
    /\ arg = <<"5", "-", "3">> => parsed = <<>>
    /\ arg = <<"a", "b", "c">> => parsed = <<>> /\ Len(ParseWarnings) = 1

\* a bare number, an ascending range and a malformed token in one selection
C10_Witness ==
  /\ pc = "parsed"
  /\ \E sp \in TokenSpans : UnsignedNumeral(TokenAt(sp))
  /\ \E sp \in TokenSpans : Cardinality(TokenValues(TokenAt(sp))) >= 2
  /\ \E sp \in TokenSpans : ~WellFormed(TokenAt(sp))
  /\ Len(parsed) >= 3 /\ ParseWarnings # <<>>

(***************************************************************************)
(* Inputs of the Roman numeral resolution                                  *)
(***************************************************************************)
MaxRomanValue == 3999

MaxRomanLen == 3

RomanOnes ==
  << <<>>, <<"I">>, <<"I", "I">>, <<"I", "I", "I">>, <<"I", "V">>, <<"V">>,
     <<"V", "I">>, <<"V", "I", "I">>, <<"V", "I", "I", "I">>, <<"I", "X">> >>

RomanTens ==
  << <<>>, <<"X">>, <<"X", "X">>, <<"X", "X", "X">>, <<"X", "L">>, <<"L">>,
     <<"L", "X">>, <<"L", "X", "X">>, <<"L", "X", "X", "X">>, <<"X", "C">> >>

RomanHundreds ==
  << <<>>, <<"C">>, <<"C", "C">>, <<"C", "C", "C">>, <<"C", "D">>, <<"D">>,
     <<"D", "C">>, <<"D", "C", "C">>, <<"D", "C", "C", "C">>, <<"C", "M">> >>

\* the subtractive-notation numeral of n >= 1, in capitals
StandardNumeral(n) ==
  [k \in 1..(n \div 1000) |-> "M"]
    \o RomanHundreds[((n \div 100) % 10) + 1]
    \o RomanTens[((n \div 10) % 10) + 1]
    \o RomanOnes[(n % 10) + 1]

LetterCases == {"upper", "lower", "mixed"}

\* the numeral in capitals, in small letters, or alternating the two
InCase(s, case) ==
  [k \in 1..Len(s) |->
     IF case = "lower" \/ (case = "mixed" /\ k % 2 = 1) THEN Lower(s[k])
     ELSE s[k]]

\* a well-formed numeral with its value, or any string of numeral letters
NumeralShapes ==
  [kind : {"standard"}, value : 1..MaxRomanValue, case : LetterCases]
    \cup [kind : {"letters"},
          token : UNION { [1..n -> RomanClass] : n \in 1..MaxRomanLen }]

NumeralOf(sh) ==
  IF sh.kind = "standard" THEN InCase(StandardNumeral(sh.value), sh.case)
  ELSE sh.token

InitRoman ==
  /\ pc = "start"
  /\ shape \in NumeralShapes
  /\ numeral = NumeralOf(shape)
  /\ roman_total = 0
  /\ text = <<>> /\ maxChars = 0 /\ chunks = <<>> /\ outcome = "none"
  /\ candidates = Null /\ valid_chapters = Null /\ chapters = Null
  /\ requested = {} /\ extracted = Null /\ stderr = <<>>
  /\ arg = Null /\ parsed = Null /\ chapter_bounds = Null
  /\ NoRechunk /\ NoDriver

\* a direct call roman_to_int(numeral)
RomanToInt ==
  /\ pc = "start"
  /\ roman_total' = roman_to_int(numeral)
  /\ outcome' = "returned"
  /\ pc' = "roman"
  /\ UNCHANGED <<text, maxChars, chunks, candidates, valid_chapters, chapters,
                 requested, extracted, stderr, arg, parsed, shape,
                 chapter_bounds, numeral, rechunkVars, driverVars>>

\* parse_chapter_number(numeral): not all digits, so resolved as a numeral
ParseChapterNumber ==
  /\ pc = "start"
  /\ roman_total' = parse_chapter_number(numeral)
  /\ outcome' = "returned"
  /\ pc' = "number"
  /\ UNCHANGED <<text, maxChars, chunks, candidates, valid_chapters, chapters,
                 requested, extracted, stderr, arg, parsed, shape,
                 chapter_bounds, numeral, rechunkVars, driverVars>>

NextRoman == RomanToInt \/ ParseChapterNumber

SpecRoman == InitRoman /\ [][NextRoman]_vars

(***************************************************************************)
(* Claims about the Roman numeral resolution                               *)
(***************************************************************************)
RomanResolved == pc \in {"roman", "number"}

\* C12: a well-formed subtractive-notation numeral resolves to its
\* conventional value, in capitals, small letters or mixed case: IV is 4,
\* IX is 9, XL is 40, MCMXCIV is 1994, and iv resolves as IV does.
C12_ConventionalValue ==
  RomanResolved =>
    /\ shape.kind = "standard" => roman_total = shape.value
    /\ numeral = <<"I", "V">> => roman_total = 4
    /\ numeral = <<"i", "v">> => roman_total = 4
    /\ numeral = <<"I", "X">> => roman_total = 9
    /\ numeral = <<"X", "L">> => roman_total = 40
    /\ numeral = <<"M", "C", "M", "X", "C", "I", "V">> => roman_total = 1994

\* MCMXCIV in mixed case
C12_Witness ==
  /\ RomanResolved
  /\ shape.kind = "standard" /\ shape.case = "mixed"
  /\ numeral = <<"m", "C", "m", "X", "c", "I", "v">>
  /\ roman_total = 1994

\* the value of a numeral letter, in either case
SymbolValue(c) ==
  CASE c \in {"I", "i"} -> 1 [] c \in {"V", "v"} -> 5 [] c \in {"X", "x"} -> 10
    [] c \in {"L", "l"} -> 50 [] c \in {"C", "c"} -> 100
    [] c \in {"D", "d"} -> 500 [] c \in {"M", "m"} -> 1000

RECURSIVE SumOf(_)
SumOf(terms) == IF terms = <<>> THEN 0 ELSE Head(terms) + SumOf(Tail(terms))

\* the largest symbol value to the right of position k, 0 when there is none
MaxToTheRight(s, k) ==
  SetMax({0} \cup {SymbolValue(s[j]) : j \in (k + 1)..Len(s)})

\* a symbol is subtracted when it is less than the largest one to its right
RunningMaxRule(s) ==
  SumOf([k \in 1..Len(s) |->
           IF SymbolValue(s[k]) < MaxToTheRight(s, k) THEN 0 - SymbolValue(s[k])
           ELSE SymbolValue(s[k])])

\* a symbol is subtracted when it is less than the symbol right after it
NextSymbolRule(s) ==
  SumOf([k \in 1..Len(s) |->
           IF k < Len(s) /\ SymbolValue(s[k]) < SymbolValue(s[k + 1])
           THEN 0 - SymbolValue(s[k])
           ELSE SymbolValue(s[k])])

\* C15, as stated: for every string of numeral letters roman_to_int returns
\* the value of the right-to-left rule that subtracts a character's value
\* when it is less than the running maximum of the values to its right.
C15_RunningMaxRule ==
  pc = "roman" => roman_total = RunningMaxRule(numeral)

\* C15, amended: for every string of numeral letters roman_to_int returns
\* the value of the right-to-left rule that subtracts a character's value
\* when it is less than the value of the character right after it.
C15_NextSymbolRule ==
  pc = "roman" => roman_total = NextSymbolRule(numeral)

\* a string of numeral letters, not a numeral, on which the two rules differ
C15_Witness ==
  /\ pc = "roman"
  /\ shape.kind = "letters"
  /\ RunningMaxRule(numeral) # NextSymbolRule(numeral)
  /\ roman_total = NextSymbolRule(numeral)

(***************************************************************************)
(* md_to_audiobook.py and md_to_audiobook_qwen.py: the synthesis loop of   *)
(* main.  A temporary file is <<i, name>>, the chunk index and which of    *)
(* the file names of chunk i it is.  What the synthesis of a chunk yields  *)
(* (audio, nothing, an exception) is the environment's choice.             *)
(***************************************************************************)
MaxChunks == 3

Drivers == {"gemini", "qwen"}

\* gemini: text_to_audio_chunk returns bytes or b""
\* qwen: which file generate_audio left: chunk_i_000.wav, chunk_i.wav,
\* another chunk_i*.wav, or none
SynthesisResults(d) ==
  IF d = "gemini" THEN {"chunk_i.wav", "none"}
  ELSE {"chunk_i_000.wav", "chunk_i.wav", "chunk_i*.wav", "none"}

\* a plausible slip: the new file is put at the front of the list
TempFilesAfterPrepends(files, i, result) ==
  IF result = "none" THEN files ELSE << <<i, result>> >> \o files

\* a plausible slip: a file is listed for a chunk that produced no audio
TempFilesAfterAlwaysAppends(files, i, result) == Append(files, <<i, result>>)

\* md_to_audiobook.py lines 346-348, md_to_audiobook_qwen.py lines 317-329:
\* temp_files.append(...) unless no audio was produced
TempFilesAfter(files, i, result) ==
  IF result = "none" THEN files ELSE Append(files, <<i, result>>)

\* main after split_text_smart returned the chunks (at least one: the text
\* is not blank), temp_files = []
InitDriver ==
  /\ pc = "synthesis"
  /\ driver \in Drivers
  /\ \E n \in 1..MaxChunks :
       chunks \in [1..n -> { <<"a">>, <<"a", ".", " ", "a">> }]
  /\ idx = 0 /\ temp_files = <<>> /\ merge_calls = <<>> /\ synthesized = <<>>
  /\ text = <<>> /\ maxChars = 0 /\ outcome = "none"
  /\ candidates = Null /\ valid_chapters = Null /\ chapters = Null
  /\ requested = {} /\ extracted = Null /\ stderr = <<>>
  /\ arg = Null /\ parsed = Null /\ shape = Null /\ chapter_bounds = Null
  /\ NoRechunk /\ NoRoman

\* one iteration of "for i, chunk in enumerate(chunks)" that returns
Synthesize(result) ==
  /\ pc = "synthesis"
  /\ idx < Len(chunks)
  /\ result \in SynthesisResults(driver)
  /\ synthesized' = Append(synthesized, <<idx, result>>)
  /\ temp_files' = TempFilesAfter(temp_files, idx, result)
  /\ stderr' = IF driver = "qwen" /\ result = "none"
               THEN Append(stderr, <<"Warning: No audio generated for chunk", idx>>)
               ELSE stderr
  /\ idx' = idx + 1
  /\ UNCHANGED <<pc, text, maxChars, chunks, outcome, candidates,
                 valid_chapters, chapters, requested, extracted, arg, parsed,
                 shape, chapter_bounds, driver, merge_calls, rechunkVars,
                 romanVars>>

\* one iteration that raises: except KeyboardInterrupt / except Exception,
\* both exit with status 1 and the merge is not reached
SynthesisRaises(kind) ==
  /\ pc = "synthesis"
  /\ idx < Len(chunks)
  /\ kind \in {"interrupted", "error"}
  /\ stderr' = Append(stderr, IF kind = "interrupted" THEN <<"Interrupted.">>
                              ELSE <<"Error:">>)
  /\ outcome' = IF kind = "interrupted" THEN "exit_interrupted"
                 ELSE "exit_error"
  /\ pc' = "exited"
  /\ UNCHANGED <<text, maxChars, chunks, candidates, valid_chapters, chapters,
                 requested, extracted, arg, parsed, shape, chapter_bounds,
                 driverVars, rechunkVars, romanVars>>

\* after the loop: "if not temp_files: ... sys.exit(1)", else the merge
\* (merge_audio_ffmpeg / merge_audio_files), which ffmpeg may fail
AfterLoop(ffmpeg_ok) ==
  /\ pc = "synthesis"
  /\ idx = Len(chunks)
  /\ IF temp_files = <<>>
     THEN /\ stderr' = Append(stderr, <<"Error: No audio generated">>)
          /\ outcome' = "exit_no_audio"
          /\ merge_calls' = merge_calls
     ELSE /\ merge_calls' = Append(merge_calls, temp_files)
          /\ IF ffmpeg_ok
             THEN /\ outcome' = "saved"
                  /\ stderr' = stderr
             ELSE /\ outcome' = "exit_error"
                  /\ stderr' = Append(stderr, <<"Error: ffmpeg failed">>)
  /\ pc' = "exited"
  /\ UNCHANGED <<text, maxChars, chunks, candidates, valid_chapters, chapters,
                 requested, extracted, arg, parsed, shape, chapter_bounds,
                 driver, idx, temp_files, synthesized, rechunkVars, romanVars>>

NextDriver ==
  \/ \E result \in SynthesisResults("qwen") : Synthesize(result)
  \/ \E kind \in {"interrupted", "error"} : SynthesisRaises(kind)
  \/ \E ffmpeg_ok \in BOOLEAN : AfterLoop(ffmpeg_ok)

SpecDriver == InitDriver /\ [][NextDriver]_vars

(***************************************************************************)
(* Claims about the drivers                                                *)
(***************************************************************************)
FileIndexes(files) == [k \in 1..Len(files) |-> files[k][1]]

StrictlyIncreasing(ns) == \A k \in 1..(Len(ns) - 1) : ns[k] < ns[k + 1]

\* the indexes of the chunks whose synthesis produced audio
WithAudio == { synthesized[k][1] : k \in { j \in 1..Len(synthesized) :
                                             synthesized[j][2] # "none" } }

\* C17: in both drivers the chunks are synthesized one at a time in sequence
\* order, the file list is in strictly increasing chunk-index order and lacks
\* exactly the chunks that produced no audio, and the merge is called at most
\* once, after the last chunk, with that list, and only when it is not empty.
C17_MergeInChunkOrder ==
  driver \in Drivers =>
    /\ \A k \in 1..Len(synthesized) : synthesized[k][1] = k - 1
    /\ Len(synthesized) = idx /\ idx <= Len(chunks)
    /\ StrictlyIncreasing(FileIndexes(temp_files))
    /\ Range(FileIndexes(temp_files)) = WithAudio
    /\ Len(merge_calls) <= 1
    /\ merge_calls # <<>> =>
         /\ merge_calls[1] = temp_files /\ temp_files # <<>>
         /\ idx = Len(chunks) /\ pc = "exited"
    /\ (pc = "exited" /\ outcome = "saved") => Len(merge_calls) = 1
    /\ (pc = "exited" /\ outcome # "saved" /\ outcome # "exit_error")
         => merge_calls = <<>>

\* a merge of two files or more, with a chunk in between left out
C17_Witness ==
  /\ driver \in Drivers
  /\ Len(merge_calls) = 1
  /\ Len(merge_calls[1]) >= 2
  /\ \E k \in 1..Len(synthesized) :
       /\ synthesized[k][2] = "none"
       /\ merge_calls[1][1][1] < k - 1 /\ k - 1 < merge_calls[1][2][1]

====
